---------------------------- MODULE Spec2Model ----------------------------
(* Model of formats::bson::impl::BsonBuilder (bson_builder.cpp) and of     *)
(* taxi_config::ValueDict (value.hpp).                                     *)
(*                                                                         *)
(* Bytes are naturals 0..255, byte strings are sequences of bytes.  A      *)
(* 64-bit integer is kept as four 16-bit limbs, most significant first,    *)
(* because the model checker's integers are narrower than 64 bits.         *)
EXTENDS Integers, Sequences, FiniteSets, TLC

VARIABLES
  bson_,     \* BsonBuilder::bson_ : [buf, extracted]
  pc,        \* position of the constructor / builder: ctor, visiting, ready, failed
  tree,      \* the ValueImpl handed to BsonBuilder(const ValueImpl&)
  stack,     \* activations of the root visitor and of AppendInto's container visitors
  opened,    \* offsets of the sub-container scopes opened so far, in order
  closed,    \* offsets of the sub-container scopes closed so far, in order
  holder,    \* the BsonHolder returned by the last successful Extract()
  last,      \* the last public call: [op, res, pre, key, arg]
  calls,     \* number of Append calls made so far
  dict,      \* ValueDict::dict_
  lookup     \* the last ValueDict lookup: [op, key, res, has, val]

vars == <<bson_, pc, tree, stack, opened, closed, holder, last, calls, dict, lookup>>

-----------------------------------------------------------------------------
(* Bounds of the model *)

\* Nesting depth of the generated input trees (levels wrapped around a filler).
MaxDepth == 3
\* Number of Append calls made on one builder.
MaxAppends == 2

-----------------------------------------------------------------------------
(* Byte-level helpers *)

Front(s) == SubSeq(s, 1, Len(s) - 1)

\* 32-bit little-endian encoding, as libbson writes lengths and int32 values.
LE32(n) == << n % 256, (n \div 256) % 256, (n \div 65536) % 256, (n \div 16777216) % 256 >>

\* Overwrite four bytes of b that follow 0-based offset off with LE32(n).
PatchLE32(b, off, n) ==
  [i \in 1..Len(b) |-> IF i > off /\ i <= off + 4 THEN LE32(n)[i - off] ELSE b[i]]

\* Index of the first null byte of b in from..to, 0 when there is none.
RECURSIVE FindNul(_, _, _)
FindNul(b, from, to) ==
  IF from > to THEN 0 ELSE IF b[from] = 0 THEN from ELSE FindNul(b, from + 1, to)

\* libbson type codes (bson_type_t)
BSON_TYPE_DOUBLE == 1
BSON_TYPE_UTF8 == 2
BSON_TYPE_DOCUMENT == 3
BSON_TYPE_ARRAY == 4
BSON_TYPE_BINARY == 5
BSON_TYPE_OID == 7
BSON_TYPE_BOOL == 8
BSON_TYPE_DATE_TIME == 9
BSON_TYPE_NULL == 10
BSON_TYPE_INT32 == 16
BSON_TYPE_TIMESTAMP == 17
BSON_TYPE_INT64 == 18
BSON_TYPE_DECIMAL128 == 19
BSON_TYPE_MAXKEY == 127
BSON_TYPE_MINKEY == 255

\* One element: type code, key as a C string, payload.
Element(type, key, payload) == <<type>> \o key \o <<0>> \o payload

\* Outcomes of a call
Ok == "ok"
LogicError == "std::logic_error"
EncodingError == "BsonException"

-----------------------------------------------------------------------------
(* ValueImpl: the parsed tree *)

NoValue == [type |-> 0, payload |-> <<>>]
Missing == [kind |-> "missing", value |-> NoValue, doc |-> <<>>, array |-> <<>>, nest |-> 0]
Scalar(v) == [kind |-> "scalar", value |-> v, doc |-> <<>>, array |-> <<>>, nest |-> 0]
Document(entries) ==
  [kind |-> "doc", value |-> NoValue, doc |-> entries, array |-> <<>>, nest |-> 0]
Array(elems) ==
  [kind |-> "array", value |-> NoValue, doc |-> <<>>, array |-> elems, nest |-> 0]
Entry(k, n) == [key |-> k, elem |-> n]

\* The innermost node of the deeply nested arrays.
DeepCore == Array(<<Scalar([type |-> BSON_TYPE_INT32, payload |-> <<3, 0, 0, 0>>]), Missing>>)

\* The array whose only element is the array whose only element is ... DeepCore,
\* d arrays around it.  It is kept folded (nest = d) and unfolded one level at
\* a time by ChildAt, because the tree itself would be nested too deep to hold.
DeepArray(d) ==
  IF d = 0 THEN DeepCore
  ELSE [kind |-> "array", value |-> NoValue, doc |-> <<>>, array |-> <<>>, nest |-> d]

IsMissing(n) == n.kind = "missing"

\* The alternative held by ValueImpl::parsed_value_.
ParsedAlt(n) ==
  IF n.kind = "doc" THEN "ParsedDocument"
  ELSE IF n.kind = "array" THEN "ParsedArray"
  ELSE "nullptr"

\* Number of children the visitor's loop iterates over.
NumChildren(n) ==
  IF n.nest > 0 THEN 1 ELSE IF n.kind = "doc" THEN Len(n.doc) ELSE Len(n.array)
ChildAt(n, i) ==
  IF n.nest > 0 THEN DeepArray(n.nest - 1)
  ELSE IF n.kind = "doc" THEN n.doc[i].elem ELSE n.array[i]

-----------------------------------------------------------------------------
(* ArrayIndexer *)

RECURSIVE Decimal(_)
Decimal(n) == IF n < 10 THEN <<48 + n>> ELSE Decimal(n \div 10) \o <<48 + (n % 10)>>

\* ArrayIndexer::GetKey for an indexer that was advanced `index` times.
ArrayIndexerGetKey(index) == Decimal(index)
ArrayIndexerAdvance(index) == index + 1


-----------------------------------------------------------------------------
(* MutableBson: the owner of the byte buffer behind bson_ *)

\* MutableBson(): a fresh buffer holding the root's 4-byte length field.
MutableBsonNew == [buf |-> <<0, 0, 0, 0>>, extracted |-> FALSE]

\* The finished document: trailing null byte written, total length patched in.
Finalize(buf) == PatchLE32(buf \o <<0>>, 0, Len(buf) + 1)

\* MutableBson::Get(): the writable buffer; an extracted instance has none.
MutableBsonGet(b) ==
  IF b.extracted THEN [res |-> LogicError, buf |-> <<>>]
  ELSE [res |-> Ok, buf |-> b.buf]

\* MutableBson::Extract(): hands the finished buffer over, once.
MutableBsonExtract(b) ==
  IF b.extracted THEN [res |-> LogicError, out |-> <<>>, bson |-> b]
  ELSE [res |-> Ok, out |-> Finalize(b.buf), bson |-> [buf |-> <<>>, extracted |-> TRUE]]

-----------------------------------------------------------------------------
(* SubdocBson / SubarrayBson: the scoped sub-container *)

\* Constructor: container-type marker, key, 4-byte placeholder at the write
\* position.  The scope remembers the placeholder's offset, Len(buf) + Len(key) + 2.
SubcontainerEnter(buf, type, key) == buf \o Element(type, key, <<0, 0, 0, 0>>)
SubcontainerStart(buf, key) == Len(buf) + Len(key) + 2

\* Destructor: trailing null byte, then finalLength = currentBufferSize - startOffset
\* written over the placeholder.
SubcontainerExit(buf, start) == PatchLE32(buf \o <<0>>, start, Len(buf) + 1 - start)

-----------------------------------------------------------------------------
(* BsonBuilder(const ValueImpl&) and AppendInto *)

Frame(n, s) == [node |-> n, idx |-> 1, indexer |-> 0, start |-> s]
Top == stack[Len(stack)]
\* A public call as the caller saw it: the operation, its outcome, the buffer
\* before it, and the key and the argument passed (as bytes or limbs).
CallRec(op, res, pre, key, arg) ==
  [op |-> op, res |-> res, pre |-> pre, key |-> key, arg |-> arg]

\* Mutant: the document visitor takes its keys from the position, as the
\* array visitor does.
ChildKeyFromPosition(f) == ArrayIndexerGetKey(f.idx - 1)

\* The key the visitor passes to AppendInto for the child its loop is at.
ChildKey(f) ==
  IF f.node.kind = "doc" THEN f.node.doc[f.idx].key ELSE ArrayIndexerGetKey(f.indexer)

\* The loop of a visitor moves on to its next element.
NextIteration(f) ==
  [f EXCEPT !.idx = @ + 1,
            !.indexer = IF f.node.kind = "array" THEN ArrayIndexerAdvance(@) ELSE @]

\* Visitor::operator()(std::nullptr_t) of AppendInto: bson_append_value copies
\* the node's own encoded value under the given key.
AppendValue(buf, key, value) == buf \o Element(value.type, key, value.payload)

\* Mutant: AppendInto without its IsMissing() check.
AppendIntoNeverSkips(child) == FALSE

\* Whether AppendInto returns at once for this child.
AppendIntoSkips(child) == IsMissing(child)

\* Mutant: the root visitor does nothing for the nullptr alternative.
CtorVisitAcceptsAny ==
  /\ pc = "ctor"
  /\ IF ParsedAlt(tree) = "nullptr"
       THEN /\ pc' = "ready"
            /\ last' = CallRec("BsonBuilder", Ok, bson_.buf, <<>>, <<>>)
            /\ stack' = stack
       ELSE /\ pc' = "visiting"
            /\ stack' = <<Frame(tree, 0)>>
            /\ last' = last
  /\ UNCHANGED <<bson_, tree, opened, closed, holder, calls, dict, lookup>>

\* std::visit on the root: the nullptr alternative throws std::logic_error,
\* a document or an array starts the root visitor's loop.
CtorVisit ==
  /\ pc = "ctor"
  /\ IF ParsedAlt(tree) = "nullptr"
       THEN /\ pc' = "failed"
            /\ last' = CallRec("BsonBuilder", LogicError, bson_.buf, <<>>, <<>>)
            /\ stack' = stack
       ELSE /\ pc' = "visiting"
            /\ stack' = <<Frame(tree, 0)>>
            /\ last' = last
  /\ UNCHANGED <<bson_, tree, opened, closed, holder, calls, dict, lookup>>

\* AppendInto on a Missing child: `if (value.IsMissing()) return;`
AppendIntoMissing ==
  /\ pc = "visiting"
  /\ Top.idx <= NumChildren(Top.node)
  /\ AppendIntoSkips(ChildAt(Top.node, Top.idx))
  /\ stack' = [stack EXCEPT ![Len(stack)] = NextIteration(@)]
  /\ UNCHANGED <<bson_, pc, tree, opened, closed, holder, last, calls, dict, lookup>>

\* AppendInto on a child whose parsed_value_ holds nullptr.
AppendIntoValue ==
  /\ pc = "visiting"
  /\ Top.idx <= NumChildren(Top.node)
  /\ LET child == ChildAt(Top.node, Top.idx) IN
       /\ ~AppendIntoSkips(child)
       /\ ParsedAlt(child) = "nullptr"
       /\ bson_' = [bson_ EXCEPT !.buf = AppendValue(@, ChildKey(Top), child.value)]
  /\ stack' = [stack EXCEPT ![Len(stack)] = NextIteration(@)]
  /\ UNCHANGED <<pc, tree, opened, closed, holder, last, calls, dict, lookup>>

\* AppendInto on a document or array child: the scope opens and the child's
\* visitor starts its loop.
AppendIntoContainer ==
  /\ pc = "visiting"
  /\ Top.idx <= NumChildren(Top.node)
  /\ LET child == ChildAt(Top.node, Top.idx)
         type == IF child.kind = "doc" THEN BSON_TYPE_DOCUMENT ELSE BSON_TYPE_ARRAY
         start == SubcontainerStart(bson_.buf, ChildKey(Top))
     IN
       /\ ~AppendIntoSkips(child)
       /\ ParsedAlt(child) # "nullptr"
       /\ bson_' = [bson_ EXCEPT !.buf = SubcontainerEnter(@, type, ChildKey(Top))]
       /\ stack' = Append(stack, Frame(child, start))
       /\ opened' = Append(opened, start)
  /\ UNCHANGED <<pc, tree, closed, holder, last, calls, dict, lookup>>

\* Mutant: the visitor returns without the scope's destructor having run.
ScopeExitNoPatch ==
  /\ pc = "visiting"
  /\ Len(stack) > 1
  /\ Top.idx > NumChildren(Top.node)
  /\ stack' = [Front(stack) EXCEPT ![Len(stack) - 1] = NextIteration(@)]
  /\ UNCHANGED <<bson_, pc, tree, opened, closed, holder, last, calls, dict, lookup>>

\* The loop of a nested visitor is over: the scope's destructor runs, AppendInto
\* returns and the caller's loop moves on.
ScopeExit ==
  /\ pc = "visiting"
  /\ Len(stack) > 1
  /\ Top.idx > NumChildren(Top.node)
  /\ bson_' = [bson_ EXCEPT !.buf = SubcontainerExit(@, Top.start)]
  /\ closed' = Append(closed, Top.start)
  /\ stack' = [Front(stack) EXCEPT ![Len(stack) - 1] = NextIteration(@)]
  /\ UNCHANGED <<pc, tree, opened, holder, last, calls, dict, lookup>>

\* The loop of the root visitor is over: the constructor returns.
CtorReturn ==
  /\ pc = "visiting"
  /\ Len(stack) = 1
  /\ Top.idx > NumChildren(Top.node)
  /\ stack' = <<>>
  /\ pc' = "ready"
  /\ last' = CallRec("BsonBuilder", Ok, <<0, 0, 0, 0>>, <<>>, <<>>)
  /\ UNCHANGED <<bson_, tree, opened, closed, holder, calls, dict, lookup>>

\* BsonBuilder::Extract()
Extract ==
  /\ pc = "ready"
  /\ LET r == MutableBsonExtract(bson_) IN
       /\ bson_' = r.bson
       /\ holder' = IF r.res = Ok THEN r.out ELSE holder
       /\ last' = CallRec("Extract", r.res, bson_.buf, <<>>, <<>>)
  /\ UNCHANGED <<pc, tree, stack, opened, closed, calls, dict, lookup>>

-----------------------------------------------------------------------------
(* 64-bit integers as four 16-bit limbs, most significant first *)

INT64_MAX == <<32767, 65535, 65535, 65535>>

\* a > b as unsigned 64-bit values.
UGreater(a, b) ==
  \E i \in 1..4 : a[i] > b[i] /\ \A j \in 1..(i - 1) : a[j] = b[j]

\* The eight bytes of a 64-bit pattern, least significant first.
Bytes64(l) ==
  << l[4] % 256, l[4] \div 256, l[3] % 256, l[3] \div 256,
     l[2] % 256, l[2] \div 256, l[1] % 256, l[1] \div 256 >>

\* l + 1 modulo 2^64.
Inc64(l) ==
  LET c4 == (l[4] + 1) \div 65536
      c3 == (l[3] + c4) \div 65536
      c2 == (l[2] + c3) \div 65536
  IN << (l[1] + c2) % 65536, (l[2] + c3) % 65536, (l[3] + c4) % 65536, (l[4] + 1) % 65536 >>

\* 2^64 - l modulo 2^64.
Neg64(l) == Inc64([i \in 1..4 |-> 65535 - l[i]])

\* An int64_t is kept as sign and magnitude: [neg, mag].
Int64(neg, mag) == [neg |-> neg, mag |-> mag]

\* The two's complement pattern of an int64_t.
Int64Bits(v) == IF v.neg THEN Neg64(v.mag) ELSE v.mag

\* static_cast<int64_t>(uint64_t)
StaticCastInt64(u) ==
  IF u[1] >= 32768 THEN Int64(TRUE, Neg64(u)) ELSE Int64(FALSE, u)

\* The four bytes of an int32_t, least significant first.
Int32Bytes(v) ==
  IF v >= 0 THEN LE32(v)
  ELSE LET u == (v + 2147483647) + 1 IN
         << u % 256, (u \div 256) % 256, (u \div 65536) % 256, (u \div 16777216) + 128 >>

-----------------------------------------------------------------------------
(* utils::text::utf8::IsValid *)

IsContinuation(s, i) == i <= Len(s) /\ s[i] >= 128 /\ s[i] <= 191

RECURSIVE Utf8IsValidFrom(_, _)
Utf8IsValidFrom(s, i) ==
  IF i > Len(s) THEN TRUE
  ELSE CASE s[i] < 128 -> Utf8IsValidFrom(s, i + 1)
         [] s[i] >= 194 /\ s[i] <= 223 ->
              IsContinuation(s, i + 1) /\ Utf8IsValidFrom(s, i + 2)
         [] s[i] >= 224 /\ s[i] <= 239 ->
              IsContinuation(s, i + 1) /\ IsContinuation(s, i + 2) /\ Utf8IsValidFrom(s, i + 3)
         [] s[i] >= 240 /\ s[i] <= 244 ->
              /\ IsContinuation(s, i + 1) /\ IsContinuation(s, i + 2)
              /\ IsContinuation(s, i + 3) /\ Utf8IsValidFrom(s, i + 4)
         [] OTHER -> FALSE

Utf8IsValid(s) == Utf8IsValidFrom(s, 1)

-----------------------------------------------------------------------------
(* BsonBuilder::Append, one operator per overload.  Each takes bson_ and    *)
(* gives the outcome and the new bson_.                                     *)

Outcome(res, b) == [res |-> res, bson |-> b]

\* bson_append_*(bson_->Get(), key, ...): the element is written at the end
\* of the buffer Get() gives; without a buffer nothing is written.
AppendElement(b, type, key, payload) ==
  LET g == MutableBsonGet(b) IN
    IF g.res # Ok THEN Outcome(g.res, b)
    ELSE Outcome(Ok, [b EXCEPT !.buf = g.buf \o Element(type, key, payload)])

AppendNull(b, key) == AppendElement(b, BSON_TYPE_NULL, key, <<>>)
AppendBool(b, key, value) ==
  AppendElement(b, BSON_TYPE_BOOL, key, <<IF value THEN 1 ELSE 0>>)
AppendInt32(b, key, value) == AppendElement(b, BSON_TYPE_INT32, key, Int32Bytes(value))
AppendInt64(b, key, value) ==
  AppendElement(b, BSON_TYPE_INT64, key, Bytes64(Int64Bits(value)))

\* Mutant: the bound compared with >= instead of >.
AppendUInt64OffByOne(b, key, value) ==
  IF ~UGreater(INT64_MAX, value) THEN Outcome(EncodingError, b)
  ELSE AppendInt64(b, key, StaticCastInt64(value))

\* Append(std::string_view, uint64_t)
AppendUInt64(b, key, value) ==
  IF UGreater(value, INT64_MAX) THEN Outcome(EncodingError, b)
  ELSE AppendInt64(b, key, StaticCastInt64(value))

AppendLongLong(b, key, value) == AppendInt64(b, key, value)
AppendUnsignedLongLong(b, key, value) == AppendUInt64(b, key, value)

\* The double is kept as its eight bytes.
AppendDouble(b, key, value) == AppendElement(b, BSON_TYPE_DOUBLE, key, value)

\* Mutant: the text is written before it is validated.
AppendStringWritesFirst(b, key, value) ==
  LET r == AppendElement(b, BSON_TYPE_UTF8, key, LE32(Len(value) + 1) \o value \o <<0>>) IN
    IF ~Utf8IsValid(value) THEN Outcome(EncodingError, r.bson) ELSE r

\* Append(std::string_view, std::string_view)
AppendString(b, key, value) ==
  IF ~Utf8IsValid(value) THEN Outcome(EncodingError, b)
  ELSE AppendElement(b, BSON_TYPE_UTF8, key, LE32(Len(value) + 1) \o value \o <<0>>)

\* std::string_view(const char*): the bytes before the first null byte.
CStringView(p) ==
  LET nul == FindNul(p, 1, Len(p)) IN SubSeq(p, 1, nul - 1)
AppendCString(b, key, value) == AppendString(b, key, CStringView(value))

\* A time_point is [ms, frac]: an int64_t of whole milliseconds since the
\* epoch and the rest below a millisecond, which duration_cast drops.
AppendTimePoint(b, key, value) ==
  AppendElement(b, BSON_TYPE_DATE_TIME, key, Bytes64(Int64Bits(value.ms)))

AppendOid(b, key, value) == AppendElement(b, BSON_TYPE_OID, key, value)
AppendBinary(b, key, value) ==
  AppendElement(b, BSON_TYPE_BINARY, key, LE32(Len(value)) \o <<0>> \o value)
AppendDecimal128(b, key, value) == AppendElement(b, BSON_TYPE_DECIMAL128, key, value)
AppendMinKey(b, key) == AppendElement(b, BSON_TYPE_MINKEY, key, <<>>)
AppendMaxKey(b, key) == AppendElement(b, BSON_TYPE_MAXKEY, key, <<>>)

\* A Timestamp is [timestamp, increment]; the increment is written first.
AppendTimestamp(b, key, value) ==
  AppendElement(b, BSON_TYPE_TIMESTAMP, key, LE32(value.increment) \o LE32(value.timestamp))

\* ValueImpl::CheckNotMissing(): a Missing value is refused with an error of
\* its own.
MissingError == "MemberMissingException"
CheckNotMissing(value) == IF IsMissing(value) THEN MissingError ELSE Ok

\* Append(std::string_view, const Value&)
AppendValueOf(b, key, value) ==
  IF CheckNotMissing(value) # Ok THEN Outcome(CheckNotMissing(value), b)
  ELSE AppendElement(b, value.value.type, key, value.value.payload)

\* Append(std::string_view, const bson_t*): the encoded document is embedded.
AppendSubBson(b, key, sub_bson) == AppendElement(b, BSON_TYPE_DOCUMENT, key, sub_bson)

-----------------------------------------------------------------------------
(* Arguments the Append calls are made with *)

KeyA == <<97>>
KeyB == <<98>>
Keys == {KeyA, KeyB}

UInt64Inputs ==
  { <<0, 0, 0, 0>>, <<0, 1, 0, 258>>,
    <<32767, 65535, 65535, 65534>>, <<32767, 65535, 65535, 65535>>,
    <<32768, 0, 0, 0>>, <<32768, 0, 0, 1>>, <<65535, 65535, 65535, 65535>> }

Int64Inputs ==
  { Int64(FALSE, <<0, 0, 0, 0>>), Int64(FALSE, <<0, 1, 0, 258>>),
    Int64(TRUE, <<0, 0, 0, 1>>), Int64(FALSE, <<32767, 65535, 65535, 65535>>),
    Int64(TRUE, <<32768, 0, 0, 0>>) }

Int32Inputs == {0, 7, -1, 2147483647}

\* "", "A", a lone continuation byte, U+00C0, a lead byte cut short, a lead
\* byte followed by ASCII, U+20AC, U+20AC cut short.
StringInputs ==
  { <<>>, <<65>>, <<128>>, <<195, 128>>, <<195>>, <<195, 65>>, <<65, 128>>,
    <<226, 130, 172>>, <<226, 130>> }

CStringInputs == { <<65, 0>>, <<128, 0>>, <<0>> }
DoubleInputs == { <<0, 0, 0, 0, 0, 0, 0, 0>>, <<0, 0, 0, 0, 0, 0, 240, 63>> }
TimePointInputs ==
  { [ms |-> Int64(FALSE, <<0, 0, 1, 0>>), frac |-> 999999],
    [ms |-> Int64(TRUE, <<0, 0, 0, 1>>), frac |-> 0] }
OidInputs == { [i \in 1..12 |-> i] }
BinaryInputs == { <<>>, <<0, 255>> }
Decimal128Inputs == { [i \in 1..16 |-> IF i = 15 THEN 64 ELSE IF i = 16 THEN 48 ELSE 0] }
TimestampInputs == { [timestamp |-> 1, increment |-> 513] }
ValueInputs ==
  { Missing,
    Scalar([type |-> BSON_TYPE_INT32, payload |-> <<7, 0, 0, 0>>]),
    Scalar([type |-> BSON_TYPE_UTF8, payload |-> <<2, 0, 0, 0, 65, 0>>]) }
SubBsonInputs == { Finalize(<<0, 0, 0, 0>>), Finalize(<<0, 0, 0, 0>> \o Element(BSON_TYPE_NULL, KeyA, <<>>)) }

Int64Arg(v) == <<IF v.neg THEN 1 ELSE 0>> \o v.mag

-----------------------------------------------------------------------------
(* The Append calls on a builder *)

\* A caller's Append call with outcome r.
Call(op, key, arg, r) ==
  /\ pc = "ready"
  /\ calls < MaxAppends
  /\ calls' = calls + 1
  /\ bson_' = r.bson
  /\ last' = CallRec(op, r.res, bson_.buf, key, arg)
  /\ UNCHANGED <<pc, tree, stack, opened, closed, holder, dict, lookup>>

CallAppendNull == Call("AppendNull", KeyA, <<>>, AppendNull(bson_, KeyA))
CallAppendBool ==
  \E v \in BOOLEAN : Call("AppendBool", KeyA, <<IF v THEN 1 ELSE 0>>, AppendBool(bson_, KeyA, v))
CallAppendInt32 ==
  \E v \in Int32Inputs : Call("AppendInt32", KeyA, <<v>>, AppendInt32(bson_, KeyA, v))
CallAppendInt64 ==
  \E k \in Keys, v \in Int64Inputs :
    Call("AppendInt64", k, Int64Arg(v), AppendInt64(bson_, k, v))
CallAppendUInt64 ==
  \E k \in Keys, v \in UInt64Inputs : Call("AppendUInt64", k, v, AppendUInt64(bson_, k, v))
CallAppendLongLong ==
  \E v \in Int64Inputs :
    Call("AppendLongLong", KeyA, Int64Arg(v), AppendLongLong(bson_, KeyA, v))
CallAppendUnsignedLongLong ==
  \E v \in UInt64Inputs :
    Call("AppendUnsignedLongLong", KeyA, v, AppendUnsignedLongLong(bson_, KeyA, v))
CallAppendDouble ==
  \E v \in DoubleInputs : Call("AppendDouble", KeyA, v, AppendDouble(bson_, KeyA, v))
CallAppendCString ==
  \E v \in CStringInputs : Call("AppendCString", KeyA, v, AppendCString(bson_, KeyA, v))
CallAppendString ==
  \E k \in Keys, v \in StringInputs : Call("AppendString", k, v, AppendString(bson_, k, v))
CallAppendTimePoint ==
  \E v \in TimePointInputs :
    Call("AppendTimePoint", KeyA, Int64Arg(v.ms) \o <<v.frac>>, AppendTimePoint(bson_, KeyA, v))
CallAppendOid ==
  \E v \in OidInputs : Call("AppendOid", KeyA, v, AppendOid(bson_, KeyA, v))
CallAppendBinary ==
  \E v \in BinaryInputs : Call("AppendBinary", KeyA, v, AppendBinary(bson_, KeyA, v))
CallAppendDecimal128 ==
  \E v \in Decimal128Inputs :
    Call("AppendDecimal128", KeyA, v, AppendDecimal128(bson_, KeyA, v))
CallAppendMinKey == Call("AppendMinKey", KeyA, <<>>, AppendMinKey(bson_, KeyA))
CallAppendMaxKey == Call("AppendMaxKey", KeyA, <<>>, AppendMaxKey(bson_, KeyA))
CallAppendTimestamp ==
  \E v \in TimestampInputs :
    Call("AppendTimestamp", KeyA, <<v.timestamp, v.increment>>, AppendTimestamp(bson_, KeyA, v))
CallAppendValue ==
  \E v \in ValueInputs :
    Call("AppendValue", KeyA, <<v.value.type>> \o v.value.payload, AppendValueOf(bson_, KeyA, v))
CallAppendSubBson ==
  \E v \in SubBsonInputs : Call("AppendSubBson", KeyA, v, AppendSubBson(bson_, KeyA, v))

-----------------------------------------------------------------------------
(* Input trees of BsonBuilder(const ValueImpl&) *)

Int32Seven == Scalar([type |-> BSON_TYPE_INT32, payload |-> <<7, 0, 0, 0>>])
Int32Three == Scalar([type |-> BSON_TYPE_INT32, payload |-> <<3, 0, 0, 0>>])
NullValue == Scalar([type |-> BSON_TYPE_NULL, payload |-> <<>>])
StringA == Scalar([type |-> BSON_TYPE_UTF8, payload |-> <<2, 0, 0, 0, 65, 0>>])

\* An array long enough for a two-digit key.
WideArray == Array([i \in 1..11 |-> IF i = 4 THEN NullValue ELSE Int32Seven])

\* The innermost nodes; also used as roots.
Fillers ==
  { Missing, Int32Seven,
    Document(<<>>), Array(<<>>),
    Document(<<Entry(KeyA, Int32Seven), Entry(KeyA, StringA)>>),
    Document(<<Entry(KeyB, Int32Three), Entry(KeyA, Missing), Entry(KeyA, NullValue)>>),
    Array(<<Int32Three, Missing, StringA>>),
    WideArray }

\* One more level of nesting around x.
Wrap(shape, x) ==
  CASE shape = 1 -> Document(<<Entry(KeyA, x)>>)
    [] shape = 2 -> Document(<<Entry(KeyB, Missing), Entry(KeyA, x), Entry(KeyA, StringA)>>)
    [] shape = 3 -> Array(<<x>>)
    [] shape = 4 -> Array(<<Int32Three, x, Array(<<NullValue>>)>>)
    [] shape = 5 -> Document(<<Entry(KeyA, Document(<<>>)), Entry(KeyB, x)>>)
Shapes == 1..5

RECURSIVE Trees(_)
Trees(d) ==
  IF d = 0 THEN Fillers
  ELSE LET T == Trees(d - 1) IN T \cup { Wrap(s, t) : s \in Shapes, t \in T }

TreeInputs == Trees(MaxDepth)

\* The ceiling on nesting depth the design asks for.
NestingLimit == 200

\* Trees nested deeper than the ceiling.
DeepInputs == { DeepArray(NestingLimit + d) : d \in 0..2 }

NoTree == Missing
NoCall == CallRec("none", Ok, <<>>, <<>>, <<>>)
NoLookup == [op |-> "none", key |-> "", res |-> Ok, has |-> FALSE, val |-> 0]
NoDict == <<>>

InitBuilder(trees) ==
  /\ tree \in trees
  /\ bson_ = MutableBsonNew
  /\ pc = "ctor"
  /\ stack = <<>>
  /\ opened = <<>>
  /\ closed = <<>>
  /\ holder = <<>>
  /\ last = NoCall
  /\ calls = 0
  /\ dict = NoDict
  /\ lookup = NoLookup

NextTree ==
  \/ CtorVisit
  \/ AppendIntoMissing
  \/ AppendIntoValue
  \/ AppendIntoContainer
  \/ ScopeExit
  \/ CtorReturn
  \/ Extract

InitTree == InitBuilder(TreeInputs)
SpecTree == InitTree /\ [][NextTree]_vars

\* The same constructor on the deeply nested inputs.
InitDeep == InitBuilder(DeepInputs)
SpecDeep == InitDeep /\ [][NextTree]_vars

-----------------------------------------------------------------------------
(* A conformant reader of the wire format, used to state the properties *)

\* Value of the 32-bit little-endian field in b[p..p+3] (p is 1-based).
ReadLE32(b, p) == b[p] + 256 * b[p + 1] + 65536 * b[p + 2] + 16777216 * b[p + 3]

NoParse == [ok |-> FALSE, next |-> 0, elems |-> <<>>]

\* Payload size of the element of the given type whose payload starts at p,
\* -1 for a type the reader does not know or a payload that does not fit.
PayloadSize(b, type, p, last_) ==
  CASE type = BSON_TYPE_NULL \/ type = BSON_TYPE_MINKEY \/ type = BSON_TYPE_MAXKEY -> 0
    [] type = BSON_TYPE_BOOL -> 1
    [] type = BSON_TYPE_INT32 -> 4
    [] type \in {BSON_TYPE_INT64, BSON_TYPE_DOUBLE, BSON_TYPE_DATE_TIME, BSON_TYPE_TIMESTAMP} -> 8
    [] type = BSON_TYPE_OID -> 12
    [] type = BSON_TYPE_DECIMAL128 -> 16
    [] type = BSON_TYPE_UTF8 -> IF p + 3 <= last_ THEN 4 + ReadLE32(b, p) ELSE -1
    [] type = BSON_TYPE_BINARY -> IF p + 3 <= last_ THEN 5 + ReadLE32(b, p) ELSE -1
    [] type \in {BSON_TYPE_DOCUMENT, BSON_TYPE_ARRAY} ->
         IF p + 3 <= last_ THEN ReadLE32(b, p) ELSE -1
    [] OTHER -> -1

RECURSIVE ParseDoc(_, _, _)
RECURSIVE ParseElems(_, _, _)

\* The document whose length field starts at index p and that must end by
\* index last_: its length L must cover exactly its elements and its
\* terminating null byte at p + L - 1.
ParseDoc(b, p, last_) ==
  IF p + 4 > last_ THEN NoParse
  ELSE LET L == ReadLE32(b, p)
           term == p + L - 1
       IN IF L < 5 \/ term > last_ THEN NoParse
          ELSE IF b[term] # 0 THEN NoParse
          ELSE LET r == ParseElems(b, p + 4, term) IN
                 IF r.ok /\ r.next = term
                   THEN [ok |-> TRUE, next |-> term + 1, elems |-> r.elems]
                   ELSE NoParse

\* The elements from index p up to the terminator at index term.
ParseElems(b, p, term) ==
  IF p >= term THEN [ok |-> TRUE, next |-> p, elems |-> <<>>]
  ELSE LET type == b[p]
           nul == FindNul(b, p + 1, term - 1)
       IN IF nul = 0 THEN NoParse
          ELSE LET key == SubSeq(b, p + 1, nul - 1)
                   pay == nul + 1
                   size == PayloadSize(b, type, pay, term - 1)
               IN IF size < 0 \/ pay + size > term THEN NoParse
                  ELSE LET sub == IF type \in {BSON_TYPE_DOCUMENT, BSON_TYPE_ARRAY}
                                    THEN ParseDoc(b, pay, pay + size - 1)
                                    ELSE [ok |-> TRUE, next |-> pay + size, elems |-> <<>>]
                           rest == IF sub.ok THEN ParseElems(b, pay + size, term) ELSE NoParse
                       IN IF ~rest.ok THEN NoParse
                          ELSE [ok |-> TRUE, next |-> rest.next,
                                elems |-> <<[type |-> type, key |-> key,
                                             payload |-> SubSeq(b, pay, pay + size - 1),
                                             sub |-> sub.elems]>> \o rest.elems]

Decode(b) == ParseDoc(b, 1, Len(b))

\* The document the builder holds, as a reader sees it.
Built == Decode(Finalize(bson_.buf))

\* The children of a node that are present.
RECURSIVE Present(_, _)
Present(n, i) ==
  IF i > NumChildren(n) THEN <<>>
  ELSE (IF IsMissing(ChildAt(n, i)) THEN <<>> ELSE <<i>>) \o Present(n, i + 1)

Range(f) == { f[i] : i \in DOMAIN f }

-----------------------------------------------------------------------------
(* Properties of the tree traversal, checked under SpecTree *)

OpenScopes == { stack[i].start : i \in 2..Len(stack) }

RECURSIVE CountContainers(_)
CountContainers(elems) ==
  IF elems = <<>> THEN 0
  ELSE (IF elems[1].type \in {BSON_TYPE_DOCUMENT, BSON_TYPE_ARRAY}
          THEN 1 + CountContainers(elems[1].sub) ELSE 0)
       + CountContainers(Tail(elems))

RECURSIVE DecodedDepth(_)
DecodedDepth(elems) ==
  IF elems = <<>> THEN 0
  ELSE LET here == IF elems[1].type \in {BSON_TYPE_DOCUMENT, BSON_TYPE_ARRAY}
                     THEN 1 + DecodedDepth(elems[1].sub) ELSE 0
           rest == DecodedDepth(Tail(elems))
       IN IF here > rest THEN here ELSE rest

CanonicalKey ==
  << <<48>>, <<49>>, <<50>>, <<51>>, <<52>>, <<53>>, <<54>>, <<55>>, <<56>>, <<57>>,
     <<49, 48>>, <<49, 49>>, <<49, 50>> >>

RECURSIVE ArraysCanonical(_, _)
ArraysCanonical(elems, isArray) ==
  /\ isArray => Len(elems) <= Len(CanonicalKey)
                /\ \A j \in 1..Len(elems) : elems[j].key = CanonicalKey[j]
  /\ \A j \in 1..Len(elems) :
       elems[j].type \in {BSON_TYPE_DOCUMENT, BSON_TYPE_ARRAY} =>
         ArraysCanonical(elems[j].sub, elems[j].type = BSON_TYPE_ARRAY)

\* C4: the elements encoded for every array, root or nested, carry the keys
\* "0", "1", ..., "m-1" in order, m being the number of elements encoded.
C4_ArrayKeysCanonical ==
  pc = "ready" /\ ~bson_.extracted =>
    Built.ok /\ ArraysCanonical(Built.elems, tree.kind = "array")

\* What is encoded for node n agrees with n: one element per present child,
\* in order, documents under the source keys, values copied as they are.
RECURSIVE EncodesInOrder(_, _)
EncodesInOrder(n, elems) ==
  LET pr == Present(n, 1) IN
    /\ Len(elems) = Len(pr)
    /\ \A j \in 1..Len(pr) :
         LET c == ChildAt(n, pr[j])
             e == elems[j]
         IN /\ n.kind = "doc" => e.key = n.doc[pr[j]].key
            /\ CASE c.kind = "doc" -> e.type = BSON_TYPE_DOCUMENT /\ EncodesInOrder(c, e.sub)
                 [] c.kind = "array" -> e.type = BSON_TYPE_ARRAY /\ EncodesInOrder(c, e.sub)
                 [] OTHER -> e.type = c.value.type /\ e.payload = c.value.payload

\* C5: for every document node the encoded elements appear under the source
\* keys in insertion order, one per present entry, entries with equal keys
\* all kept.
C5_DocumentOrderKept ==
  pc = "ready" /\ ~bson_.extracted => Built.ok /\ EncodesInOrder(tree, Built.elems)

\* A document with two entries under one key, after a Missing entry, nested
\* in another document, has been encoded.
C5_Witness ==
  /\ pc = "ready" /\ ~bson_.extracted
  /\ tree = Wrap(2, Document(<<Entry(KeyB, Int32Three), Entry(KeyA, Missing), Entry(KeyA, NullValue)>>))
  /\ Built.ok /\ Len(Built.elems) = 2 /\ Built.elems[1].key = KeyA /\ Built.elems[2].key = KeyA
  /\ Len(Built.elems[1].sub) = 2

RECURSIVE CountsMatch(_, _)
CountsMatch(n, elems) ==
  LET pr == Present(n, 1) IN
    /\ Len(elems) = Len(pr)
    /\ \A j \in 1..Len(pr) :
         ChildAt(n, pr[j]).kind \in {"doc", "array"} => CountsMatch(ChildAt(n, pr[j]), elems[j].sub)

AtMissingChild ==
  /\ pc = "visiting"
  /\ Top.idx <= NumChildren(Top.node)
  /\ IsMissing(ChildAt(Top.node, Top.idx))

\* C6: AppendInto on a Missing child changes neither the buffer nor the
\* scopes, and a container with p present children encodes exactly p elements.
C6_MissingChildSkipped ==
  /\ [][AtMissingChild => bson_' = bson_ /\ opened' = opened /\ closed' = closed]_vars
  /\ [](pc = "ready" /\ ~bson_.extracted => Built.ok /\ CountsMatch(tree, Built.elems))

\* An array with a Missing child between two present ones has been encoded.
C6_Witness ==
  /\ pc = "ready" /\ ~bson_.extracted
  /\ tree = Array(<<Int32Three, Missing, StringA>>)
  /\ Built.ok /\ Len(Built.elems) = 2

\* C7: the nested activations of AppendInto never exceed the ceiling.
C7_NestingBounded == Len(stack) - 1 <= NestingLimit

\* C8: a root that is neither a document nor an array makes the constructor
\* fail with std::logic_error with nothing encoded; only documents and arrays
\* are traversed.
C8_NonContainerRootRejected ==
  /\ pc # "ctor" /\ tree.kind \notin {"doc", "array"} =>
       /\ pc = "failed" /\ last.op = "BsonBuilder" /\ last.res = LogicError
       /\ bson_ = MutableBsonNew /\ opened = <<>> /\ stack = <<>>
  /\ pc \in {"visiting", "ready"} => tree.kind \in {"doc", "array"}
  /\ pc = "failed" => tree.kind \notin {"doc", "array"}

\* The constructor has rejected a Missing root.
C8_Witness == pc = "failed" /\ IsMissing(tree) /\ last.res = LogicError

-----------------------------------------------------------------------------
(* A default-constructed builder and the calls made on it *)

InitAppend ==
  /\ tree = NoTree
  /\ bson_ = MutableBsonNew
  /\ pc = "ready"
  /\ stack = <<>>
  /\ opened = <<>>
  /\ closed = <<>>
  /\ holder = <<>>
  /\ last = NoCall
  /\ calls = 0
  /\ dict = NoDict
  /\ lookup = NoLookup

NextAppend ==
  \/ CallAppendNull
  \/ CallAppendBool
  \/ CallAppendInt32
  \/ CallAppendInt64
  \/ CallAppendUInt64
  \/ CallAppendLongLong
  \/ CallAppendUnsignedLongLong
  \/ CallAppendDouble
  \/ CallAppendCString
  \/ CallAppendString
  \/ CallAppendTimePoint
  \/ CallAppendOid
  \/ CallAppendBinary
  \/ CallAppendDecimal128
  \/ CallAppendMinKey
  \/ CallAppendMaxKey
  \/ CallAppendTimestamp
  \/ CallAppendValue
  \/ CallAppendSubBson
  \/ Extract

SpecAppend == InitAppend /\ [][NextAppend]_vars

-----------------------------------------------------------------------------
(* Properties of the Append calls and of Extract, checked under SpecAppend *)

\* The last call was made on a builder that still owned its buffer.
PreLive == Len(last.pre) >= 4

IsAppend(op) == op \notin {"none", "Extract", "BsonBuilder"}

\* The argument of the last call is one that Append refuses by itself:
\* an unsigned value with the top bit set, or text that is not UTF-8.
ArgRefused ==
  \/ last.op \in {"AppendUInt64", "AppendUnsignedLongLong"} /\ last.arg[1] >= 32768
  \/ last.op = "AppendString"
       /\ last.arg \in { <<128>>, <<195>>, <<195, 65>>, <<65, 128>>, <<226, 130>> }
  \/ last.op = "AppendCString" /\ last.arg = <<128, 0>>

\* A call made after the first successful Extract().
LaterCall == bson_.extracted /\ ~PreLive /\ last.op # "none"

\* C1: after the first successful Extract(), every later Extract or Append
\* call on the builder fails with std::logic_error.
C1_LaterCallsFailWithLogicError == LaterCall => last.res = LogicError

\* The element Append(key, int64_t) writes for a value of the given bits,
\* byte by byte.
Int64ElementOf(key, limbs) ==
  <<18>> \o key \o <<0>> \o
  << limbs[4] % 256, limbs[4] \div 256, limbs[3] % 256, limbs[3] \div 256,
     limbs[2] % 256, limbs[2] \div 256, limbs[1] % 256, limbs[1] \div 256 >>

\* C2: Append(key, uint64_t v) on a live builder: for v <= INT64_MAX it
\* succeeds and appends what Append(key, int64_t v) appends, the same 64 bits;
\* for v > INT64_MAX it fails with BsonException.
C2_UInt64Boundary ==
  last.op = "AppendUInt64" /\ PreLive =>
    IF last.arg[1] < 32768
      THEN /\ last.res = Ok
           /\ bson_.buf = last.pre \o Int64ElementOf(last.key, last.arg)
           /\ bson_ = AppendInt64([buf |-> last.pre, extracted |-> FALSE], last.key,
                                  Int64(FALSE, last.arg)).bson
      ELSE last.res = EncodingError

\* INT64_MAX itself has been appended as an unsigned value.
C2_Witness ==
  /\ last.op = "AppendUInt64" /\ PreLive /\ last.res = Ok
  /\ last.arg = <<32767, 65535, 65535, 65535>>
  /\ SubSeq(bson_.buf, Len(bson_.buf) - 7, Len(bson_.buf)) = <<255, 255, 255, 255, 255, 255, 255, 127>>

\* C9: an Append that fails with BsonException leaves the buffer exactly as it
\* was before the call: nothing of the failing element is written and what
\* earlier calls appended stays.
C9_FailedAppendKeepsBuffer ==
  IsAppend(last.op) /\ last.res = EncodingError =>
    /\ bson_.buf = last.pre
    /\ PreLive => ~bson_.extracted /\ Built.ok /\ Built = Decode(Finalize(last.pre))
    /\ ArgRefused

\* An Append of invalid UTF-8 has failed on a builder holding an earlier element.
C9_Witness ==
  /\ last.op = "AppendString" /\ last.res = EncodingError /\ last.arg = <<128>>
  /\ PreLive /\ Built.ok /\ Len(Built.elems) = 1

-----------------------------------------------------------------------------
(* taxi_config::ValueDict *)

kValueDictDefaultName == "__default__"
RuntimeError == "std::runtime_error"

\* boost::none as an optional key.
NoKey == "boost::none"

\* dict_.find(key): whether it is not dict_.end(), and it->second.
Find(d, key) ==
  IF key \in DOMAIN d THEN [found |-> TRUE, val |-> d[key]] ELSE [found |-> FALSE, val |-> 0]

Result(res, has, val) == [res |-> res, has |-> has, val |-> val]

HasValue(d, key) == Find(d, key).found
HasDefaultValue(d) == HasValue(d, kValueDictDefaultName)

GetDefaultValue(d) ==
  LET it == Find(d, kValueDictDefaultName) IN
    IF ~it.found THEN Result(RuntimeError, FALSE, 0) ELSE Result(Ok, TRUE, it.val)

\* Mutant: the lookup does not fall back to the default key.
IndexNoFallback(d, key) ==
  LET it == Find(d, key) IN
    IF ~it.found THEN Result(RuntimeError, FALSE, 0) ELSE Result(Ok, TRUE, it.val)

\* operator[](const std::string&)
Index(d, key) ==
  LET it == Find(d, key) IN
    IF ~it.found
      THEN LET def == Find(d, kValueDictDefaultName) IN
             IF ~def.found THEN Result(RuntimeError, FALSE, 0) ELSE Result(Ok, TRUE, def.val)
      ELSE Result(Ok, TRUE, it.val)

\* operator[](const boost::optional<std::string>&)
IndexOptional(d, key) == IF key # NoKey THEN Index(d, key) ELSE GetDefaultValue(d)

Get(d, key) == Index(d, key)

GetOptional(d, key) ==
  LET it == Find(d, key) IN
    IF ~it.found
      THEN LET def == Find(d, kValueDictDefaultName) IN
             IF ~def.found THEN Result(Ok, FALSE, 0) ELSE Result(Ok, TRUE, def.val)
      ELSE Result(Ok, TRUE, it.val)

\* Keys and values of the dictionaries looked at; "c" is never stored.
DictKeys == {kValueDictDefaultName, "a", "b"}
LookupKeys == DictKeys \cup {"c"}
DictValues == {10, 20}
DictInputs == UNION { [S -> DictValues] : S \in SUBSET DictKeys }

Looked(op, key, r) ==
  /\ lookup' = [op |-> op, key |-> key, res |-> r.res, has |-> r.has, val |-> r.val]
  /\ UNCHANGED <<bson_, pc, tree, stack, opened, closed, holder, last, calls, dict>>

CallIndex == \E k \in LookupKeys : Looked("operator[]", k, Index(dict, k))
CallIndexOptional ==
  \E k \in LookupKeys \cup {NoKey} : Looked("operator[]optional", k, IndexOptional(dict, k))
CallGet == \E k \in LookupKeys : Looked("Get", k, Get(dict, k))
CallGetOptional == \E k \in LookupKeys : Looked("GetOptional", k, GetOptional(dict, k))
CallGetDefaultValue == Looked("GetDefaultValue", NoKey, GetDefaultValue(dict))
CallHasValue ==
  \E k \in LookupKeys : Looked("HasValue", k, Result(Ok, HasValue(dict, k), 0))
CallHasDefaultValue == Looked("HasDefaultValue", NoKey, Result(Ok, HasDefaultValue(dict), 0))

InitDict ==
  /\ dict \in DictInputs
  /\ lookup = NoLookup
  /\ tree = NoTree
  /\ bson_ = MutableBsonNew
  /\ pc = "ready"
  /\ stack = <<>>
  /\ opened = <<>>
  /\ closed = <<>>
  /\ holder = <<>>
  /\ last = NoCall
  /\ calls = 0

NextDict ==
  \/ CallIndex
  \/ CallIndexOptional
  \/ CallGet
  \/ CallGetOptional
  \/ CallGetDefaultValue
  \/ CallHasValue
  \/ CallHasDefaultValue

SpecDict == InitDict /\ [][NextDict]_vars

\* C10: operator[](key) and Get(key) give the value stored under key when
\* there is one, else the value stored under the default key when there is
\* one, and fail exactly when there is neither; GetOptional(key) gives the
\* same value in the first two cases and none exactly in the third; no lookup
\* changes the dictionary.
C10_DefaultKeyFallback ==
  /\ [](lookup.op \in {"operator[]", "Get", "GetOptional"} =>
          LET k == lookup.key
              fails == IF lookup.op = "GetOptional"
                         THEN lookup.res = Ok /\ ~lookup.has
                         ELSE lookup.res = RuntimeError
              gives(v) == lookup.res = Ok /\ lookup.has /\ lookup.val = v
          IN IF k \in DOMAIN dict THEN gives(dict[k])
             ELSE IF "__default__" \in DOMAIN dict THEN gives(dict["__default__"])
             ELSE fails)
  /\ [][dict' = dict]_vars

\* Get("c") has fallen back to the default key's value although "a" is
\* stored with another value.
C10_Witness ==
  /\ lookup.op = "Get" /\ lookup.key = "c" /\ lookup.res = Ok
  /\ DOMAIN dict = {"__default__", "a"} /\ dict["a"] = 10 /\ lookup.val = 20

=============================================================================
